---- MODULE Spec2Model ----
(***************************************************************************)
(* A model of analyzers/Jupyter/jupyter.py: the remote execution of        *)
(* notebooks over a kernel websocket (execute_notebook_remotely), and the  *)
(* JupyterHub server lifecycle (event_stream, start_server, stop_server).  *)
(*                                                                         *)
(* These specifications share the module:                                  *)
(*   Spec       execute_notebook_remotely, and run reporting its records   *)
(*   SpecLive   Spec with the coroutine scheduled fairly                   *)
(*   SpecStart  start_server reading event_stream                          *)
(*   SpecStop   stop_server                                                *)
(*   SpecPath   the output paths run builds from the configuration         *)
(*   SpecConf   __init__ reading the configuration                         *)
(* Each one moves its own variables and leaves the others alone.           *)
(***************************************************************************)
EXTENDS Integers, Sequences, FiniteSets, TLC

VARIABLES
    \* ---- execute_notebook_remotely
    input_paths,   \* self.input_paths
    pc,            \* position of the coroutine
    ws,            \* the websocket: "none", "open" or "closed"
    results,       \* the list results
    pi,            \* position of `for path in iter(self.input_paths)`
    nb_output,     \* cells of the notebook being executed
    nb_param,      \* the same cells as parameterize_notebook returned them
    ci,            \* position of `for cell in iter(nb_output['cells'])`
    msg_id,        \* the token of the request being waited for
    sent,          \* the execute_request messages written to ws, in order
    msg,           \* the message the pending read_message resolves with
    failure,       \* the error that ended the run
    start_time,    \* time.time() when the notebook was loaded
    timer,         \* time.time() - start_time
    report,        \* what run handed to self.report
    \* ---- start_server / event_stream
    ss_pc, ss_args, user_model, stream, pos, event, server_url, ss_return,
    ss_error, ss_gets, ss_posts,
    \* ---- stop_server
    sp_pc, sp_args, sp_model, sp_polled, sp_sleeps, sp_error,
    \* ---- the configuration and the output paths run builds from it
    conf, lp_pc, lp_path, output_notebook, output_notebook_direct,
    \* ---- __init__
    settings,      \* the analyzer's configuration, as the job supplies it
    cf_pc,         \* position of the constructor
    cf_net,        \* the calls of start_server made so far
    cf_error       \* the error that ended the constructor

execVars == <<input_paths, pc, ws, results, pi, nb_output, nb_param, ci,
              msg_id, sent, msg, failure, start_time, timer, report>>
startVars == <<ss_pc, ss_args, user_model, stream, pos, event, server_url,
               ss_return, ss_error, ss_gets, ss_posts>>
stopVars == <<sp_pc, sp_args, sp_model, sp_polled, sp_sleeps, sp_error>>
pathVars == <<conf, lp_pc, lp_path, output_notebook, output_notebook_direct>>
confVars == <<settings, cf_pc, cf_net, cf_error>>
vars == <<execVars, startVars, stopVars, pathVars, confVars>>

----------------------------------------------------------------------------
(* Bounds of the model. *)

\* the longest list of input paths
MaxNotebooks == 2
\* the most cells of the notebooks of one run, taken together
MaxCells == 3
\* the most lines of one progress stream
MaxLines == 3
\* the most polls of one stop_server call
MaxPolls == 4

----------------------------------------------------------------------------
(* Values. *)

\* The path of the n-th notebook of a run: the paths of a run differ.
NotebookNames == <<"a", "b", "c", "d">>
PathOf(n) == <<"/", NotebookNames[n], ".ipynb">>

\* parent_header without a msg_id field
NoId == -1
\* a token some other client of the kernel generated
ForeignId == 0

MsgTypes == {"error", "execute_reply", "stream", "display_data", "status"}
Contents == {"X", "Y"}

NoMsg == [msg_type |-> "none", parent |-> NoId, content |-> "none"]
\* read_message returns None once the peer has closed the channel
NoneMsg == [msg_type |-> "None", parent |-> NoId, content |-> "None"]

NoFailure == [kind |-> "none"]

OldOutput == [output_type |-> "stream", content |-> "old"]

\* The kinds of cell a loaded notebook holds: a code cell that was never run,
\* a code cell that still carries the outputs of an earlier run, a text cell.
CellKinds == {"code", "code_old", "markdown"}

MakeCell(kind, p, i) ==
    [cell_type |-> IF kind = "markdown" THEN "markdown" ELSE "code",
     source    |-> <<p, i>>,
     outputs   |-> IF kind = "code_old" THEN <<OldOutput>> ELSE <<>>]

\* The notebooks of at most n cells, as sequences of cell kinds.
Shapes(n) == UNION {[1..k -> CellKinds] : k \in 0..n}

\* pm.iorw.load_notebook_node followed by pm.parameterize.parameterize_notebook:
\* both are papermill's; the model takes what they return to be any notebook
\* (the run's notebooks holding at most MaxCells cells together), each cell's
\* source naming its notebook and position.
Notebook(shape, p) == [i \in 1..Len(shape) |-> MakeCell(shape[i], p, i)]

\* nbformat.v4.nbbase.output_from_msg: an output of the message's type that
\* carries the message's content.
output_from_msg(m) == [output_type |-> m.msg_type, content |-> m.content]

\* The messages read_message can return while `n` requests have been sent:
\* a reply to any of them, to a foreign request, or one without a msg_id.
Messages(n) ==
    [msg_type : MsgTypes, parent : {NoId, ForeignId} \cup 1..n, content : Contents]

----------------------------------------------------------------------------
(* The configuration records and the output paths built from them. *)

\* Hostnames, as papermill's get_handler sees them: the first word is the
\* scheme the handler is chosen by.
HttpHostnames == {<<"http://", "out1/">>, <<"http://", "out2/">>}
LocalHostnames == {<<"/srv/">>}
Tokens == {<<"t1">>, <<"t2">>}
ConfUsers == {<<"u1">>, <<"u2">>}
\* the urls start_server returns for the user's server
ServerUrls == {<<"http://", "hub/", "user/", "s1/">>, <<"http://", "hub/", "user/", "s2/">>}
Folders == {<<"/", "out/">>, <<"/", "reports/">>}
Dates == {<<"2024-01-01">>, <<"2024-01-02">>}
Data == {<<"1.2.3.4">>, <<"evil.example">>}

\* what initialize_path returns for a hostname whose handler is not HttpHandler
None == [handler_type |-> "None"]

\* line 52: papermill_io.get_handler(hostname) is HttpHandler
IsHttp(hostname) == hostname[1] \in {"http://", "https://"}

\* lines 47-93, the token and the user being present: the record is returned
\* inside the branch of the HTTP handler, and nothing is returned outside it.
\* `server` is what start_server returned, read only for a JupyterHub.
initialize_path(hostname, token, is_jupyterhub, user, server) ==
    IF IsHttp(hostname)
    THEN [hostname                       |-> hostname,
          handler_type                   |-> "HttpHandler",
          handler_http_service_api_token |-> token,
          handler_http_is_jupyterhub     |-> is_jupyterhub,
          handler_http_user              |-> user,
          server_uri_http_api_contents   |->
              (IF is_jupyterhub THEN server ELSE hostname) \o <<"api/contents">>]
    ELSE None

\* The configurations of an analyzer: config.any_handler_http_user is one
\* setting, read for the input and for the output.
Confs ==
    { [input         |-> initialize_path(ih, <<"t0">>, FALSE, u, <<>>),
       output        |-> initialize_path(oh, t, hub, u, sv),
       output_folder |-> f,
       date          |-> d,
       data          |-> x] :
         ih \in {<<"http://", "in/">>} \cup LocalHostnames,
         oh \in HttpHostnames \cup LocalHostnames,
         t \in Tokens, hub \in BOOLEAN, u \in ConfUsers, sv \in ServerUrls,
         f \in Folders, d \in Dates, x \in Data }

\* The configuration of the remote runs: input and output on one HTTP server.
RunConf ==
    [input         |-> initialize_path(<<"http://", "in/">>, <<"t0">>, FALSE, <<"u1">>, <<>>),
     output        |-> initialize_path(<<"http://", "out1/">>, <<"t1">>, FALSE, <<"u1">>, <<>>),
     output_folder |-> <<"/", "out/">>,
     date          |-> <<"2024-01-01">>,
     data          |-> <<"1.2.3.4">>]

\* path[1:]
StripFirst(path) == Tail(path)

\* the part the three forms share: folder + date + "-" + data + "-" + path[1:]
DatedName(c, path) ==
    c.output_folder \o c.date \o <<"-">> \o c.data \o <<"-">> \o StripFirst(path)

\* lines 347 and 397, the output configuration being that of an HTTP handler
OutputPath(c, path) ==
    c.output.server_uri_http_api_contents \o DatedName(c, path)
        \o <<"?token=">> \o c.output.handler_http_service_api_token

\* OutputPathDirect handing out the address the notebook is written to.
OutputPathDirect_WithToken(c, path) == OutputPath(c, path)

\* lines 348 and 398
OutputPathDirect(c, path) ==
    c.output.hostname \o <<"/user/">> \o c.input.handler_http_user \o <<"/tree">>
        \o DatedName(c, path)

NoPath == <<>>

IdlePath ==
    /\ conf = RunConf
    /\ lp_pc = "idle"
    /\ lp_path = NoPath
    /\ output_notebook = NoPath
    /\ output_notebook_direct = NoPath

\* run, lines 385-387: the local branch is about to build the paths of a
\* notebook
PathInit ==
    /\ conf \in Confs
    /\ lp_pc = "build"
    /\ lp_path \in {PathOf(1), PathOf(2)}
    /\ output_notebook = NoPath
    /\ output_notebook_direct = NoPath

\* run, lines 389-402: get_conf subscripts the configuration, a TypeError when
\* initialize_path returned nothing for it
BuildPaths ==
    /\ lp_pc = "build"
    /\ IF conf.input = None \/ conf.output = None
       THEN /\ lp_pc' = "TypeError"
            /\ UNCHANGED <<output_notebook, output_notebook_direct>>
       ELSE /\ lp_pc' = "built"
            /\ output_notebook' = OutputPath(conf, lp_path)
            /\ output_notebook_direct' = OutputPathDirect(conf, lp_path)
    /\ UNCHANGED <<conf, lp_path>>
    /\ UNCHANGED <<execVars, startVars, stopVars, confVars>>

PathNext == BuildPaths

----------------------------------------------------------------------------
(* __init__ reading the configuration *)

\* The values of a setting, by what the constructor tells apart: "None" for a
\* setting the job does not supply, "" for an empty string.
HostnameSettings == {"None", "http", "local"}
StringSettings == {"None", "", "set"}
BoolSettings == {"None", "True", "False"}
ListSettings == {"None", "set"}

Settings ==
    [input_hostname                       : HostnameSettings,
     input_handler_http_service_api_token : StringSettings,
     input_handler_http_is_jupyterhub     : BoolSettings,
     any_handler_http_user                : StringSettings,
     input_paths                          : ListSettings,
     input_handler_http_execute_remotely  : BoolSettings,
     output_hostname                      : HostnameSettings,
     output_handler_http_service_api_token : StringSettings,
     output_handler_http_is_jupyterhub    : BoolSettings,
     output_folder                        : ListSettings]

IdleConf ==
    /\ settings = [input_hostname |-> "None"]
    /\ cf_pc = "idle"
    /\ cf_net = 0
    /\ cf_error = "none"

ConfInit ==
    /\ settings \in Settings
    /\ cf_pc = "input"
    /\ cf_net = 0
    /\ cf_error = "none"

\* cortexutils' getParam(name, None, message): self.error(message) when the
\* setting is not there
Missing(name) == settings[name] = "None"

\* self.error: the message is reported and the process exits
ConfigError ==
    /\ cf_pc' = "failed"
    /\ cf_error' = "ConfigError"

\* lines 61-78: the checks initialize_path makes for an HTTP handler
HttpSettingsWrong(token) ==
    \/ settings[token] = ""
    \/ settings.any_handler_http_user \in {"None", ""}

\* lines 28-32 and 36-40 with initialize_path, lines 47-93: the three settings
\* are read, the HTTP settings checked, and the server of a JupyterHub is
\* started (start_server begins with a GET of the user model, line 173, and
\* returns the server's url or raises)
InitializePath(hostname, token, is_jupyterhub, next) ==
    IF Missing(hostname) \/ Missing(token) \/ Missing(is_jupyterhub)
    THEN ConfigError /\ UNCHANGED cf_net
    ELSE IF settings[hostname] = "http" /\ HttpSettingsWrong(token)
    THEN ConfigError /\ UNCHANGED cf_net
    ELSE IF settings[hostname] = "http" /\ settings[is_jupyterhub] = "True"
    THEN /\ cf_net' = cf_net + 1
         /\ \/ /\ cf_pc' = next
               /\ UNCHANGED cf_error
            \/ /\ cf_pc' = "failed"
               /\ cf_error' = "ServerError"
    ELSE /\ cf_pc' = next
         /\ UNCHANGED <<cf_net, cf_error>>

\* lines 28-32
InitializeInput ==
    /\ cf_pc = "input"
    /\ InitializePath("input_hostname", "input_handler_http_service_api_token",
                      "input_handler_http_is_jupyterhub", "paths")
    /\ UNCHANGED settings
    /\ UNCHANGED <<execVars, startVars, stopVars, pathVars>>

\* lines 33-34
ReadInputPaths ==
    /\ cf_pc = "paths"
    /\ IF Missing("input_paths") \/ Missing("input_handler_http_execute_remotely")
       THEN ConfigError
       ELSE cf_pc' = "output" /\ UNCHANGED cf_error
    /\ UNCHANGED <<settings, cf_net>>
    /\ UNCHANGED <<execVars, startVars, stopVars, pathVars>>

\* lines 36-40
InitializeOutput ==
    /\ cf_pc = "output"
    /\ InitializePath("output_hostname", "output_handler_http_service_api_token",
                      "output_handler_http_is_jupyterhub", "folder")
    /\ UNCHANGED settings
    /\ UNCHANGED <<execVars, startVars, stopVars, pathVars>>

\* lines 41-44: config.any_only_html has a default and is never missing
ReadOutputFolder ==
    /\ cf_pc = "folder"
    /\ IF Missing("output_folder")
       THEN ConfigError
       ELSE cf_pc' = "constructed" /\ UNCHANGED cf_error
    /\ UNCHANGED <<settings, cf_net>>
    /\ UNCHANGED <<execVars, startVars, stopVars, pathVars>>

ConfNext ==
    \/ InitializeInput
    \/ ReadInputPaths
    \/ InitializeOutput
    \/ ReadOutputFolder

----------------------------------------------------------------------------
(* execute_notebook_remotely *)

InitExec ==
    /\ \E n \in 0..MaxNotebooks : input_paths = [i \in 1..n |-> PathOf(i)]
    /\ pc = "start"
    /\ ws = "none"
    /\ results = <<>>
    /\ pi = 1
    /\ nb_output = <<>>
    /\ nb_param = <<>>
    /\ ci = 1
    /\ msg_id = 0
    /\ sent = <<>>
    /\ msg = NoMsg
    /\ failure = NoFailure
    /\ start_time = 0
    /\ timer = 0
    /\ report = <<>>

\* time.time(), a clock that is never set back: it ticks once each time a
\* request is written and its reply awaited, and stands still otherwise.
Now == Len(sent)

\* An exception leaves the coroutine, or self.error ends the process: nothing
\* after the raising statement runs.
Raise(f) ==
    /\ pc' = "failed"
    /\ failure' = f

\* lines 235-244: POST api/kernels
CreateKernel ==
    /\ pc = "start"
    /\ \/ /\ pc' = "connect"
          /\ UNCHANGED failure
       \/ Raise([kind |-> "HTTPError"])
    /\ UNCHANGED <<input_paths, ws, results, pi, nb_output, nb_param, ci,
                   msg_id, sent, msg>>
    /\ UNCHANGED <<start_time, timer, report>>
    /\ UNCHANGED <<startVars, stopVars, pathVars, confVars>>

\* lines 247-258: websocket_connect, results = []
Connect ==
    /\ pc = "connect"
    /\ \/ /\ ws' = "open"
          /\ results' = <<>>
          /\ pi' = 1
          /\ pc' = "load"
          /\ UNCHANGED failure
       \/ /\ Raise([kind |-> "ConnectError"])
          /\ UNCHANGED <<ws, results, pi>>
    /\ UNCHANGED <<input_paths, nb_output, nb_param, ci, msg_id, sent, msg>>
    /\ UNCHANGED <<start_time, timer, report>>
    /\ UNCHANGED <<startVars, stopVars, pathVars, confVars>>

RECURSIVE CellCount(_)
CellCount(rs) == IF rs = <<>> THEN 0 ELSE Len(Head(rs).cells) + CellCount(Tail(rs))

\* The cells of the notebooks executed before the one to load.
CellsLoaded == CellCount(results)

\* lines 261-274: the next path is loaded and parameterized
LoadNotebook ==
    /\ pc = "load"
    /\ pi <= Len(input_paths)
    /\ \/ \E shape \in Shapes(MaxCells - CellsLoaded) :
            /\ nb_output' = Notebook(shape, pi)
            /\ nb_param' = Notebook(shape, pi)
            /\ ci' = 1
            /\ start_time' = Now
            /\ pc' = "cell"
            /\ UNCHANGED failure
       \/ /\ Raise([kind |-> "LoadError"])
          /\ UNCHANGED <<nb_output, nb_param, ci, start_time>>
    /\ UNCHANGED <<input_paths, ws, results, pi, msg_id, sent, msg>>
    /\ UNCHANGED <<timer, report>>
    /\ UNCHANGED <<startVars, stopVars, pathVars, confVars>>

\* SkipCell submitting the cell's source like that of a code cell.
SkipCell_Submits ==
    /\ pc = "cell"
    /\ ci <= Len(nb_output)
    /\ nb_output[ci].cell_type # "code"
    /\ msg_id' = Len(sent) + 1
    /\ sent' = Append(sent, [msg_id |-> Len(sent) + 1, code |-> nb_output[ci].source])
    /\ pc' = "wait"
    /\ UNCHANGED <<input_paths, ws, results, pi, nb_output, nb_param, ci,
                   msg, failure>>
    /\ UNCHANGED <<start_time, timer, report>>
    /\ UNCHANGED <<startVars, stopVars, pathVars, confVars>>

\* lines 277-280: a cell that is not a code cell is passed over
SkipCell ==
    /\ pc = "cell"
    /\ ci <= Len(nb_output)
    /\ nb_output[ci].cell_type # "code"
    /\ ci' = ci + 1
    /\ UNCHANGED <<input_paths, pc, ws, results, pi, nb_output, nb_param,
                   msg_id, sent, msg, failure>>
    /\ UNCHANGED <<start_time, timer, report>>
    /\ UNCHANGED <<startVars, stopVars, pathVars, confVars>>

\* SendRequest without the wait loop: the request is written and the next cell
\* is taken at once.
SendRequest_NoWait ==
    /\ pc = "cell"
    /\ ci <= Len(nb_output)
    /\ nb_output[ci].cell_type = "code"
    /\ msg_id' = Len(sent) + 1
    /\ sent' = Append(sent, [msg_id |-> Len(sent) + 1, code |-> nb_output[ci].source])
    /\ ci' = ci + 1
    /\ UNCHANGED <<input_paths, pc, ws, results, pi, nb_output, nb_param,
                   msg, failure>>
    /\ UNCHANGED <<start_time, timer, report>>
    /\ UNCHANGED <<startVars, stopVars, pathVars, confVars>>

\* lines 283-305: a fresh msg_id (uuid4) and the execute_request of the cell
SendRequest ==
    /\ pc = "cell"
    /\ ci <= Len(nb_output)
    /\ nb_output[ci].cell_type = "code"
    /\ msg_id' = Len(sent) + 1
    /\ sent' = Append(sent, [msg_id |-> Len(sent) + 1, code |-> nb_output[ci].source])
    /\ pc' = "wait"
    /\ UNCHANGED <<input_paths, ws, results, pi, nb_output, nb_param, ci,
                   msg, failure>>
    /\ UNCHANGED <<start_time, timer, report>>
    /\ UNCHANGED <<startVars, stopVars, pathVars, confVars>>

\* SetOutputs adding to the outputs the cell holds instead of replacing them.
SetOutputs_Extend(outs) ==
    /\ nb_output' = [nb_output EXCEPT ![ci].outputs = @ \o outs]
    /\ ci' = ci + 1
    /\ pc' = "cell"
    /\ UNCHANGED failure

\* lines 329-330, 333-334, 337-338: cell["outputs"] = outs; break
SetOutputs(outs) ==
    /\ nb_output' = [nb_output EXCEPT ![ci].outputs = outs]
    /\ ci' = ci + 1
    /\ pc' = "cell"
    /\ UNCHANGED failure

\* line 339: the message is dropped and the loop reads on
KeepWaiting == UNCHANGED <<nb_output, ci, pc, failure>>

\* line 317: msg['parent_header']['msg_id'], a KeyError without the field
NoParentId(m) ==
    /\ Raise([kind |-> "KeyError"])
    /\ UNCHANGED <<nb_output, ci>>

\* Matches without the comparison of the ids.
Matches_Any(m) == TRUE

\* line 320: parent_msg_id == msg_id
Matches(m) == m.parent = msg_id

\* OnError emptying the outputs of the cell before it reports the error.
OnError_Empties(m) ==
    /\ Raise([kind |-> "KernelExecutionError", msg |-> m])
    /\ nb_output' = [nb_output EXCEPT ![ci].outputs = <<>>]
    /\ UNCHANGED ci

\* OnError with a self.error that returns: the break of line 325 is taken.
OnError_Break(m) ==
    /\ ci' = ci + 1
    /\ pc' = "cell"
    /\ UNCHANGED <<nb_output, failure>>

\* lines 323-325: self.error reports the message and ends the process, the
\* break after it is never reached
OnError(m) ==
    /\ Raise([kind |-> "KernelExecutionError", msg |-> m])
    /\ UNCHANGED <<nb_output, ci>>

\* OnExecuteReply without line 329: the outputs are left as loaded.
OnExecuteReply_Break(m) ==
    /\ ci' = ci + 1
    /\ pc' = "cell"
    /\ UNCHANGED <<nb_output, failure>>

\* lines 327-330
OnExecuteReply(m) == SetOutputs(<<>>)

\* lines 332-338
OnOutput(m) == SetOutputs(<<output_from_msg(m)>>)

\* Dispatch reading on when read_message returned None.
Dispatch_NoneIgnored(m) ==
    IF m = NoneMsg
    THEN KeepWaiting
    ELSE IF m.parent = NoId
    THEN NoParentId(m)
    ELSE IF Matches(m)
    THEN CASE m.msg_type = "error" -> OnError(m)
           [] m.msg_type = "execute_reply" -> OnExecuteReply(m)
           [] m.msg_type = "stream" -> OnOutput(m)
           [] m.msg_type = "display_data" -> OnOutput(m)
           [] OTHER -> KeepWaiting
    ELSE KeepWaiting

\* Dispatch taking the break on a matching message of any type.
Dispatch_AnyTypeBreaks(m) ==
    IF m = NoneMsg
    THEN /\ Raise([kind |-> "DecodeError"])
         /\ UNCHANGED <<nb_output, ci>>
    ELSE IF m.parent = NoId
    THEN NoParentId(m)
    ELSE IF Matches(m)
    THEN CASE m.msg_type = "error" -> OnError(m)
           [] m.msg_type = "execute_reply" -> OnExecuteReply(m)
           [] m.msg_type = "stream" -> OnOutput(m)
           [] m.msg_type = "display_data" -> OnOutput(m)
           [] OTHER -> /\ ci' = ci + 1
                       /\ pc' = "cell"
                       /\ UNCHANGED <<nb_output, failure>>
    ELSE KeepWaiting

\* lines 313-339: what the wait loop does with the message m it has read
Dispatch(m) ==
    IF m = NoneMsg
    THEN \* line 313: json_decode(None) raises
         /\ Raise([kind |-> "DecodeError"])
         /\ UNCHANGED <<nb_output, ci>>
    ELSE IF m.parent = NoId
    THEN NoParentId(m)
    ELSE IF Matches(m)
    THEN CASE m.msg_type = "error" -> OnError(m)
           [] m.msg_type = "execute_reply" -> OnExecuteReply(m)
           [] m.msg_type = "stream" -> OnOutput(m)
           [] m.msg_type = "display_data" -> OnOutput(m)
           [] OTHER -> KeepWaiting
    ELSE KeepWaiting

\* line 310: the coroutine is suspended in `yield ws.read_message()` and the
\* channel resolves the read, with a message of the kernel or, the peer having
\* closed the channel, with None
Deliver ==
    /\ pc = "wait"
    /\ msg = NoMsg
    /\ \E m \in Messages(Len(sent)) \cup {NoneMsg} : msg' = m
    /\ UNCHANGED <<input_paths, pc, ws, results, pi, nb_output, nb_param, ci,
                   msg_id, sent, failure>>
    /\ UNCHANGED <<start_time, timer, report>>
    /\ UNCHANGED <<startVars, stopVars, pathVars, confVars>>

\* lines 310-339: the coroutine resumes with the message and takes one turn of
\* the wait loop
ReadMessage ==
    /\ pc = "wait"
    /\ msg # NoMsg
    /\ Dispatch(msg)
    /\ msg' = NoMsg
    /\ UNCHANGED <<input_paths, ws, results, pi, nb_param, msg_id, sent>>
    /\ UNCHANGED <<start_time, timer, report>>
    /\ UNCHANGED <<startVars, stopVars, pathVars, confVars>>

\* EndCells closing the channel when the cells of a notebook are exhausted.
EndCells_Closes ==
    /\ pc = "cell"
    /\ ci > Len(nb_output)
    /\ pc' = "write"
    /\ ws' = "closed"
    /\ timer' = Now - start_time
    /\ UNCHANGED <<input_paths, results, pi, nb_output, nb_param, ci,
                   msg_id, sent, msg, failure>>
    /\ UNCHANGED <<start_time, report>>
    /\ UNCHANGED <<startVars, stopVars, pathVars, confVars>>

\* lines 277 and 342: the cells are exhausted, the timer is read
EndCells ==
    /\ pc = "cell"
    /\ ci > Len(nb_output)
    /\ pc' = "write"
    /\ UNCHANGED <<input_paths, ws, results, pi, nb_output, nb_param, ci,
                   msg_id, sent, msg, failure>>
    /\ timer' = Now - start_time
    /\ UNCHANGED <<start_time, report>>
    /\ UNCHANGED <<startVars, stopVars, pathVars, confVars>>

\* WriteNotebook putting the record at the head of the list.
WriteNotebook_Prepend ==
    /\ pc = "write"
    /\ results' = <<[name            |-> input_paths[pi],
                     cells           |-> nb_output,
                     duration        |-> timer,
                     output_notebook |-> OutputPathDirect(conf, input_paths[pi])]>>
                       \o results
    /\ pi' = pi + 1
    /\ pc' = "load"
    /\ UNCHANGED <<input_paths, ws, nb_output, nb_param, ci, msg_id, sent,
                   msg, failure>>
    /\ UNCHANGED <<start_time, timer, report>>
    /\ UNCHANGED <<startVars, stopVars, pathVars, confVars>>

\* lines 346-363: the notebook is written and its record appended (the output
\* configuration of these runs is that of an HTTP handler)
WriteNotebook ==
    /\ pc = "write"
    /\ \/ /\ results' = Append(results,
                 [name            |-> input_paths[pi],
                  cells           |-> nb_output,
                  duration        |-> timer,
                  output_notebook |-> OutputPathDirect(conf, input_paths[pi])])
          /\ pi' = pi + 1
          /\ pc' = "load"
          /\ UNCHANGED failure
       \/ /\ Raise([kind |-> "WriteError"])
          /\ UNCHANGED <<results, pi>>
    /\ UNCHANGED <<input_paths, ws, nb_output, nb_param, ci, msg_id, sent,
                   msg>>
    /\ UNCHANGED <<start_time, timer, report>>
    /\ UNCHANGED <<startVars, stopVars, pathVars, confVars>>

\* Close returning without the ws.close() of line 366.
Close_LeavesOpen ==
    /\ pc = "load"
    /\ pi > Len(input_paths)
    /\ pc' = "done"
    /\ UNCHANGED <<input_paths, ws, results, pi, nb_output, nb_param, ci,
                   msg_id, sent, msg, failure>>
    /\ UNCHANGED <<start_time, timer, report>>
    /\ UNCHANGED <<startVars, stopVars, pathVars, confVars>>

\* lines 366-368: ws.close() after the last path
Close ==
    /\ pc = "load"
    /\ pi > Len(input_paths)
    /\ ws' = "closed"
    /\ pc' = "done"
    /\ UNCHANGED <<input_paths, results, pi, nb_output, nb_param, ci, msg_id,
                   sent, msg, failure>>
    /\ UNCHANGED <<start_time, timer, report>>
    /\ UNCHANGED <<startVars, stopVars, pathVars, confVars>>

\* run, lines 442-452: what the HTML exporter makes of one record, the body
\* being a rendering of the record's cells
Convert(nb, only_html) ==
    IF only_html
    THEN [name |-> nb.name, duration |-> nb.duration,
          output_notebook |-> nb.output_notebook, html |-> nb.cells]
    ELSE [name |-> nb.name, duration |-> nb.duration,
          output_notebook |-> nb.output_notebook, html |-> nb.cells,
          cells |-> nb.cells]

\* Report handing over what was produced, whether the coroutine returned or
\* an error ended it.
Report_Partial ==
    /\ pc \in {"done", "failed"}
    /\ report = <<>>
    /\ \E only_html \in BOOLEAN :
          report' = <<[notebooks |-> [i \in 1..Len(results) |->
                                        Convert(results[i], only_html)]]>>
    /\ pc' = IF pc = "done" THEN "reported" ELSE pc
    /\ UNCHANGED <<input_paths, ws, results, pi, nb_output, nb_param, ci,
                   msg_id, sent, msg, failure, start_time, timer>>
    /\ UNCHANGED <<startVars, stopVars, pathVars, confVars>>

\* run, lines 383 and 442-456: run_sync hands the returned list to run, which
\* converts each record (config.any_only_html choosing the fields) and
\* reports them
Report ==
    /\ pc = "done"
    /\ \E only_html \in BOOLEAN :
          report' = <<[notebooks |-> [i \in 1..Len(results) |->
                                        Convert(results[i], only_html)]]>>
    /\ pc' = "reported"
    /\ UNCHANGED <<input_paths, ws, results, pi, nb_output, nb_param, ci,
                   msg_id, sent, msg, failure, start_time, timer>>
    /\ UNCHANGED <<startVars, stopVars, pathVars, confVars>>

Next ==
    \/ CreateKernel
    \/ Connect
    \/ LoadNotebook
    \/ SkipCell
    \/ SendRequest
    \/ Deliver
    \/ ReadMessage
    \/ EndCells
    \/ WriteNotebook
    \/ Close
    \/ Report

----------------------------------------------------------------------------
(* event_stream and start_server *)

\* Strings are sequences of words, "/" being a word of its own where the code
\* looks at it.
HubUrls == {<<"http://hub">>}
Users == {<<"u">>}
ServerNames == {<<>>, <<"cortex_job">>}
Urls == {<<"/user/u/a/">>, <<"/user/u/b/">>}

\* str.rstrip(ch)
RECURSIVE rstrip(_, _)
rstrip(s, ch) ==
    IF Len(s) > 0 /\ s[Len(s)] = ch THEN rstrip(SubSeq(s, 1, Len(s) - 1), ch) ELSE s

\* lines 176 and 210: f"{user}/{server_name}".rstrip("/")
log_name(user, server_name) == rstrip(user \o <<"/">> \o server_name, "/")

\* The values of an event's "ready" field; "absent" is an event without it.
ReadyValues == {"true", "false", "absent"}

\* Truthy as `"ready" in event`.
Truthy_Present(v) == v # "absent"

\* line 191: event.get("ready") as a condition
Truthy(v) == v = "true"

\* A line of the progress response: an event line (`data:` and a JSON object)
\* or any other line.
OtherLine == [data |-> FALSE, ready |-> "absent", url |-> <<>>]
EventLines == [data : {TRUE}, ready : ReadyValues, url : Urls]
Lines == EventLines \cup {OtherLine}
Streams == UNION {[1..n -> Lines] : n \in 0..MaxLines}

NoEvent == [data |-> FALSE, ready |-> "none", url |-> <<>>]
NoError == [kind |-> "none"]
NoUrl == <<"none">>

\* lines 162-167: the position of the first `data:` line after line p of s,
\* 0 when the response ends before one
NextData(s, p) ==
    IF \E j \in (p + 1)..Len(s) : s[j].data
    THEN CHOOSE j \in (p + 1)..Len(s) :
            /\ s[j].data
            /\ \A i \in (p + 1)..(j - 1) : ~s[i].data
    ELSE 0

InitStart ==
    /\ ss_pc = "get"
    /\ ss_args \in [hub_url : HubUrls, user : Users, server_name : ServerNames]
    /\ user_model = {}
    /\ stream = <<>>
    /\ pos = 0
    /\ event = NoEvent
    /\ server_url = NoUrl
    /\ ss_return = NoUrl
    /\ ss_error = NoError
    /\ ss_gets = 0
    /\ ss_posts = 0

\* GetUserModel requesting the launch whatever the user model lists.
GetUserModel_AlwaysPosts ==
    /\ ss_pc = "get"
    /\ \E servers \in SUBSET ServerNames : user_model' = servers
    /\ ss_pc' = "post"
    /\ ss_gets' = ss_gets + 1
    /\ UNCHANGED <<ss_args, stream, pos, event, server_url, ss_return, ss_error,
                   ss_posts>>
    /\ UNCHANGED <<execVars, stopVars, pathVars, confVars>>

\* lines 179-183: the user model is fetched; user_model is the set of names
\* in its "servers"
GetUserModel ==
    /\ ss_pc = "get"
    /\ \E servers \in SUBSET ServerNames :
          /\ user_model' = servers
          /\ ss_pc' = IF ss_args.server_name \notin servers THEN "post" ELSE "progress"
    /\ ss_gets' = ss_gets + 1
    /\ UNCHANGED <<ss_args, stream, pos, event, server_url, ss_return, ss_error,
                   ss_posts>>
    /\ UNCHANGED <<execVars, stopVars, pathVars, confVars>>

\* line 184: the launch is requested
PostServer ==
    /\ ss_pc = "post"
    /\ ss_posts' = ss_posts + 1
    /\ ss_pc' = "reget"
    /\ UNCHANGED <<ss_args, user_model, stream, pos, event, server_url, ss_return,
                   ss_error, ss_gets>>
    /\ UNCHANGED <<execVars, stopVars, pathVars, confVars>>

\* lines 185-186: the user model is fetched again
RegetUserModel ==
    /\ ss_pc = "reget"
    /\ \E servers \in SUBSET ServerNames : user_model' = servers
    /\ ss_gets' = ss_gets + 1
    /\ ss_pc' = "progress"
    /\ UNCHANGED <<ss_args, stream, pos, event, server_url, ss_return, ss_error,
                   ss_posts>>
    /\ UNCHANGED <<execVars, stopVars, pathVars, confVars>>

\* lines 189-190 and 161: the progress URL is read and the stream opened
OpenProgress ==
    /\ ss_pc = "progress"
    /\ \/ /\ ss_args.server_name \in user_model
          /\ \E s \in Streams : stream' = s
          /\ pos' = 0
          /\ ss_pc' = "events"
          /\ UNCHANGED ss_error
       \/ /\ ss_args.server_name \notin user_model
          /\ ss_error' = [kind |-> "KeyError"]
          /\ ss_pc' = "failed"
          /\ UNCHANGED <<stream, pos>>
    /\ UNCHANGED <<ss_args, user_model, event, server_url, ss_return, ss_gets,
                   ss_posts>>
    /\ UNCHANGED <<execVars, stopVars, pathVars, confVars>>

\* lines 190-193 and 200: the generator yields an event that is ready
EventReady ==
    /\ ss_pc = "events"
    /\ NextData(stream, pos) # 0
    /\ Truthy(stream[NextData(stream, pos)].ready)
    /\ pos' = NextData(stream, pos)
    /\ event' = stream[NextData(stream, pos)]
    /\ server_url' = stream[NextData(stream, pos)].url
    /\ ss_return' = ss_args.hub_url \o stream[NextData(stream, pos)].url
    /\ ss_pc' = "returned"
    /\ UNCHANGED <<ss_args, user_model, stream, ss_error, ss_gets, ss_posts>>
    /\ UNCHANGED <<execVars, stopVars, pathVars, confVars>>

\* lines 190-191: the generator yields an event that is not ready
EventNotReady ==
    /\ ss_pc = "events"
    /\ NextData(stream, pos) # 0
    /\ ~Truthy(stream[NextData(stream, pos)].ready)
    /\ pos' = NextData(stream, pos)
    /\ event' = stream[NextData(stream, pos)]
    /\ UNCHANGED <<ss_pc, ss_args, user_model, stream, server_url, ss_return,
                   ss_error, ss_gets, ss_posts>>
    /\ UNCHANGED <<execVars, stopVars, pathVars, confVars>>

\* StreamEnd without the else of the for loop: the function goes on to return.
StreamEnd_Returns ==
    /\ ss_pc = "events"
    /\ NextData(stream, pos) = 0
    /\ pos' = Len(stream)
    /\ ss_return' = ss_args.hub_url \o server_url
    /\ ss_pc' = "returned"
    /\ UNCHANGED <<ss_args, user_model, stream, event, server_url, ss_error,
                   ss_gets, ss_posts>>
    /\ UNCHANGED <<execVars, stopVars, pathVars, confVars>>

\* lines 194-196: the generator is exhausted, the for loop takes its else
StreamEnd ==
    /\ ss_pc = "events"
    /\ NextData(stream, pos) = 0
    /\ pos' = Len(stream)
    /\ ss_error' = [kind |-> "ValueError",
                    text |-> log_name(ss_args.user, ss_args.server_name)
                             \o <<" never started!">>]
    /\ ss_pc' = "failed"
    /\ UNCHANGED <<ss_args, user_model, stream, event, server_url, ss_return,
                   ss_gets, ss_posts>>
    /\ UNCHANGED <<execVars, stopVars, pathVars, confVars>>

StartNext ==
    \/ GetUserModel
    \/ PostServer
    \/ RegetUserModel
    \/ OpenProgress
    \/ EventReady
    \/ EventNotReady
    \/ StreamEnd

----------------------------------------------------------------------------
(* stop_server *)

\* What a fetched user model says of one server name.
ServerStates == {"absent", "pending", "notpending"}

InitStop ==
    /\ sp_pc = "poll"
    /\ sp_args \in [hub_url : HubUrls, user : Users, server_name : ServerNames]
    /\ sp_model = [n \in ServerNames |-> "absent"]
    /\ sp_polled = <<>>
    /\ sp_sleeps = 0
    /\ sp_error = NoError

\* lines 216-217: one more poll of the user model
Fetched(m) ==
    /\ sp_pc = "poll"
    /\ Len(sp_polled) < MaxPolls
    /\ sp_model' = m
    /\ sp_polled' = Append(sp_polled, m)

\* PollAbsent without the return: the loop waits and polls again.
PollAbsent_PollsOn ==
    /\ \E m \in [ServerNames -> ServerStates] :
          /\ Fetched(m)
          /\ m[sp_args.server_name] = "absent"
    /\ sp_pc' = "sleep"
    /\ UNCHANGED <<sp_args, sp_sleeps, sp_error>>
    /\ UNCHANGED <<execVars, startVars, pathVars, confVars>>

\* lines 218-219: the server name is not in the model
PollAbsent ==
    /\ \E m \in [ServerNames -> ServerStates] :
          /\ Fetched(m)
          /\ m[sp_args.server_name] = "absent"
    /\ sp_pc' = "returned"
    /\ UNCHANGED <<sp_args, sp_sleeps, sp_error>>
    /\ UNCHANGED <<execVars, startVars, pathVars, confVars>>

\* PollNotPending without the raise: the loop waits and polls again.
PollNotPending_Retries ==
    /\ \E m \in [ServerNames -> ServerStates] :
          /\ Fetched(m)
          /\ m[sp_args.server_name] = "notpending"
    /\ sp_pc' = "sleep"
    /\ UNCHANGED <<sp_args, sp_sleeps, sp_error>>
    /\ UNCHANGED <<execVars, startVars, pathVars, confVars>>

\* lines 220-222: the server is there and not pending
PollNotPending ==
    /\ \E m \in [ServerNames -> ServerStates] :
          /\ Fetched(m)
          /\ m[sp_args.server_name] = "notpending"
    /\ sp_error' = [kind |-> "ValueError",
                    text |-> <<"Waiting for ">>
                             \o log_name(sp_args.user, sp_args.server_name)
                             \o <<", but no longer pending.">>]
    /\ sp_pc' = "failed"
    /\ UNCHANGED <<sp_args, sp_sleeps>>
    /\ UNCHANGED <<execVars, startVars, pathVars, confVars>>

\* lines 220-223: the server is there and pending
PollPending ==
    /\ \E m \in [ServerNames -> ServerStates] :
          /\ Fetched(m)
          /\ m[sp_args.server_name] = "pending"
    /\ sp_pc' = "sleep"
    /\ UNCHANGED <<sp_args, sp_sleeps, sp_error>>
    /\ UNCHANGED <<execVars, startVars, pathVars, confVars>>

\* line 224: time.sleep(1), then the loop polls again
Sleep ==
    /\ sp_pc = "sleep"
    /\ sp_sleeps' = sp_sleeps + 1
    /\ sp_pc' = "poll"
    /\ UNCHANGED <<sp_args, sp_model, sp_polled, sp_error>>
    /\ UNCHANGED <<execVars, startVars, pathVars, confVars>>

StopNext ==
    \/ PollAbsent
    \/ PollNotPending
    \/ PollPending
    \/ Sleep

----------------------------------------------------------------------------
(* The specifications. *)

\* The variables of a part no operation of which is running.
IdleExec ==
    /\ input_paths = <<>>
    /\ pc = "idle"
    /\ ws = "none"
    /\ results = <<>>
    /\ pi = 1
    /\ nb_output = <<>>
    /\ nb_param = <<>>
    /\ ci = 1
    /\ msg_id = 0
    /\ sent = <<>>
    /\ msg = NoMsg
    /\ failure = NoFailure
    /\ start_time = 0
    /\ timer = 0
    /\ report = <<>>

IdleStart ==
    /\ ss_pc = "idle"
    /\ ss_args = [hub_url |-> <<>>, user |-> <<>>, server_name |-> <<>>]
    /\ user_model = {}
    /\ stream = <<>>
    /\ pos = 0
    /\ event = NoEvent
    /\ server_url = NoUrl
    /\ ss_return = NoUrl
    /\ ss_error = NoError
    /\ ss_gets = 0
    /\ ss_posts = 0

IdleStop ==
    /\ sp_pc = "idle"
    /\ sp_args = [hub_url |-> <<>>, user |-> <<>>, server_name |-> <<>>]
    /\ sp_model = [n \in ServerNames |-> "absent"]
    /\ sp_polled = <<>>
    /\ sp_sleeps = 0
    /\ sp_error = NoError

Init == InitExec /\ IdleStart /\ IdleStop /\ IdlePath /\ IdleConf
Spec == Init /\ [][Next]_vars

StartInit == IdleExec /\ InitStart /\ IdleStop /\ IdlePath /\ IdleConf
\* The IOLoop runs the coroutine whenever it can take a step, and a pending
\* read_message is resolved in the end (by a message, or by None when the
\* peer closes): no step that stays possible is put off forever.
SpecLive == Init /\ [][Next]_vars /\ WF_vars(Next)

SpecStart == StartInit /\ [][StartNext]_vars

StopInit == IdleExec /\ IdleStart /\ InitStop /\ IdlePath /\ IdleConf
SpecStop == StopInit /\ [][StopNext]_vars

InitConf == IdleExec /\ IdleStart /\ IdleStop /\ IdlePath /\ ConfInit
SpecConf == InitConf /\ [][ConfNext]_vars

InitPath == IdleExec /\ IdleStart /\ IdleStop /\ PathInit /\ IdleConf
SpecPath == InitPath /\ [][PathNext]_vars

----------------------------------------------------------------------------
(* Properties of execute_notebook_remotely, checked under Spec. *)

\* The sources of the code cells of a sequence of cells, in order.
RECURSIVE CodeSources(_)
CodeSources(cells) ==
    IF cells = <<>> THEN <<>>
    ELSE (IF Head(cells).cell_type = "code" THEN <<Head(cells).source>> ELSE <<>>)
         \o CodeSources(Tail(cells))

\* The sources of the code cells of the notebooks of rs, notebook after notebook.
RECURSIVE BatchCodeSources(_)
BatchCodeSources(rs) ==
    IF rs = <<>> THEN <<>>
    ELSE CodeSources(Head(rs).cells) \o BatchCodeSources(Tail(rs))

SentCodes == [i \in 1..Len(sent) |-> sent[i].code]

\* a source <<p, i>> comes before <<q, j>>: an earlier notebook, or the same
\* notebook and an earlier cell
Before(a, b) == a[1] < b[1] \/ (a[1] = b[1] /\ a[2] < b[2])

TerminalTypes == {"execute_reply", "stream", "display_data"}

\* The step handles the message that was delivered: one turn of the wait loop.
Handling == pc = "wait" /\ msg # NoMsg /\ msg' = NoMsg

\* The cells whose wait is over keep their outputs: the cells before the
\* cursor of the notebook being executed, and the notebooks already recorded.
FinishedCellsKept ==
    /\ \A r \in 1..Len(results) : Len(results') >= r /\ results'[r] = results[r]
    /\ (pc \in {"cell", "wait"} /\ pc' \in {"cell", "wait", "write", "failed"})
          => \A i \in 1..(ci - 1) : nb_output'[i] = nb_output[i]

\* C1: one execute_request per code cell, in notebook order and then source
\* order, and none while a request is awaiting its reply: the requests sent are
\* the code cells met so far, in order and without repetition; after a
\* complete run they are all the code cells of the batch; a request is sent
\* only from outside the wait loop and starts the wait for its own token; the
\* wait loop is left for the next cell only on a terminal message for the
\* pending token.
C1_OnePerCodeCellInOrder ==
    /\ [](\A i \in 1..Len(sent) : \A j \in 1..Len(sent) :
             i < j => Before(sent[i].code, sent[j].code) /\ sent[i].msg_id # sent[j].msg_id)
    /\ [](Len(BatchCodeSources(results)) <= Len(sent)
          /\ SubSeq(SentCodes, 1, Len(BatchCodeSources(results))) = BatchCodeSources(results))
    /\ [](pc = "done" => SentCodes = BatchCodeSources(results))
    /\ [](pc \in {"cell", "wait"} =>
             SentCodes = BatchCodeSources(results)
                         \o CodeSources(SubSeq(nb_output, 1,
                                               IF pc = "wait" THEN ci ELSE ci - 1)))
    /\ [](pc = "wait" => msg_id = Len(sent) /\ sent[Len(sent)].msg_id = msg_id)
    /\ [][sent' # sent =>
             /\ pc = "cell" /\ pc' = "wait"
             /\ Len(sent') = Len(sent) + 1
             /\ SubSeq(sent', 1, Len(sent)) = sent
             /\ sent'[Len(sent')].msg_id = msg_id'
             /\ nb_output[ci].cell_type = "code"
             /\ sent'[Len(sent')].code = nb_output[ci].source]_vars
    /\ [][(pc = "wait" /\ pc' = "cell") =>
             msg.parent = msg_id /\ msg.msg_type \in TerminalTypes]_vars

\* a complete run of two notebooks that sent three requests
C1_Witness ==
    /\ pc = "done"
    /\ Len(results) = 2
    /\ Len(sent) = 3
    /\ Len(results[1].cells) = 2

\* C2: a message whose parent msg_id is another one than the pending token is
\* discarded: handling it changes nothing but the channel, which no longer
\* holds it, so that the run is in the state it was in before the delivery.
C2_ForeignMessagesDiscarded ==
    /\ [][(pc = "wait" /\ msg = NoMsg /\ msg' # NoMsg) =>
             UNCHANGED <<input_paths, pc, ws, results, pi, nb_output, nb_param,
                         ci, msg_id, sent, failure>>]_vars
    /\ [][(Handling /\ msg # NoneMsg /\ msg.parent # NoId /\ msg.parent # msg_id) =>
             UNCHANGED <<input_paths, pc, ws, results, pi, nb_output, nb_param,
                         ci, msg_id, sent, failure>>]_vars

\* the second request is pending and a stream message of the first is delivered
C2_Witness ==
    /\ pc = "wait"
    /\ msg_id = 2
    /\ msg.msg_type = "stream"
    /\ msg.parent = 1
    /\ nb_output[ci].outputs = <<OldOutput>>

\* C3: the run never ends with the channel left open.
C3_ChannelClosedOnEveryExit == pc \in {"done", "failed"} => ws # "open"

\* C4: a matching error message ends the wait with a failure that carries the
\* message, and nothing is sent after a failure.
C4_ErrorEndsRun ==
    /\ [][(Handling /\ msg # NoneMsg /\ msg.parent = msg_id /\ msg.msg_type = "error") =>
             /\ pc' = "failed"
             /\ failure' = [kind |-> "KernelExecutionError", msg |-> msg]
             /\ sent' = sent]_vars
    /\ [][pc = "failed" => (pc' = "failed" /\ failure' = failure /\ sent' = sent)]_vars
    /\ [](failure.kind = "KernelExecutionError" => pc = "failed")

\* the first cell failed in the kernel and a code cell follows it
C4_Witness ==
    /\ failure.kind = "KernelExecutionError"
    /\ failure.msg.parent = 1
    /\ Len(sent) = 1
    /\ ci = 1
    /\ Len(nb_output) = 2
    /\ nb_output[2].cell_type = "code"
    /\ Len(input_paths) = 2

\* C5: a matching stream or display_data message ends the wait at once and
\* the cell's outputs are the one output built from it; the outputs of a cell
\* whose wait is over never change again.
C5_FirstOutputWins ==
    /\ [][(Handling /\ msg # NoneMsg /\ msg.parent = msg_id
                    /\ msg.msg_type \in {"stream", "display_data"}) =>
             /\ pc' = "cell"
             /\ ci' = ci + 1
             /\ nb_output' = [nb_output EXCEPT
                                ![ci].outputs = <<[output_type |-> msg.msg_type,
                                                   content |-> msg.content]>>]
             /\ Len(nb_output'[ci].outputs) = 1]_vars
    /\ [][FinishedCellsKept]_vars

\* the first cell, loaded with an old output, got its output from a stream
\* message; the second request is pending and one more stream message for the
\* first is delivered
C5_Witness ==
    /\ pc = "wait"
    /\ msg_id = 2
    /\ ci = 2
    /\ nb_param[1].outputs = <<OldOutput>>
    /\ nb_output[1].outputs = <<[output_type |-> "stream", content |-> "X"]>>
    /\ msg = [msg_type |-> "stream", parent |-> 1, content |-> "Y"]

\* C6: a matching execute_reply ends the wait and empties the cell's outputs,
\* whatever they were, and they stay empty.
C6_ReplyEmptiesOutputs ==
    /\ [][(Handling /\ msg # NoneMsg /\ msg.parent = msg_id
                    /\ msg.msg_type = "execute_reply") =>
             /\ pc' = "cell"
             /\ ci' = ci + 1
             /\ nb_output'[ci].outputs = <<>>
             /\ \A i \in 1..Len(nb_output) : i # ci => nb_output'[i] = nb_output[i]]_vars
    /\ [][\A i \in 1..(ci - 1) :
             (pc \in {"cell", "wait"} /\ pc' \in {"cell", "wait", "write", "failed"}
              /\ nb_output[i].outputs = <<>>) => nb_output'[i].outputs = <<>>]_vars

\* the first cell, loaded with an old output, was emptied, and a stream
\* message for its token is delivered during the wait of the second
C6_Witness ==
    /\ pc = "wait"
    /\ msg_id = 2
    /\ ci = 2
    /\ nb_param[1].outputs = <<OldOutput>>
    /\ nb_output[1].outputs = <<>>
    /\ msg.msg_type = "stream"
    /\ msg.parent = 1

\* C7: a message without a msg_id in its parent_header is dropped like a
\* foreign one: the wait goes on, no error is raised, nothing else changes.
C7_MissingIdDropped ==
    [][(Handling /\ msg # NoneMsg /\ msg.parent = NoId) =>
          /\ pc' = "wait"
          /\ failure' = NoFailure
          /\ UNCHANGED <<nb_output, ci, results, sent, msg_id>>]_vars

----------------------------------------------------------------------------
(* Properties of start_server, checked under SpecStart. *)

\* The position of the first event of s whose "ready" is True, 0 without one.
FirstReady(s) ==
    IF \E j \in 1..Len(s) : s[j].data /\ s[j].ready = "true"
    THEN CHOOSE j \in 1..Len(s) :
            /\ s[j].data /\ s[j].ready = "true"
            /\ \A i \in 1..(j - 1) : ~(s[i].data /\ s[i].ready = "true")
    ELSE 0

\* "user/server", or "user" for the server without a name
UserSlashServer(a) ==
    IF a.server_name = <<>> THEN a.user ELSE a.user \o <<"/">> \o a.server_name

\* C8: start_server returns the hub URL joined with the url of the first ready
\* event and has read the stream up to that event only; nothing is read from
\* the stream after the return.
C8_ReturnsFirstReadyUrl ==
    /\ [](ss_pc = "returned" =>
             /\ FirstReady(stream) # 0
             /\ pos = FirstReady(stream)
             /\ ss_return = ss_args.hub_url \o stream[FirstReady(stream)].url)
    /\ [](ss_pc = "events" => (FirstReady(stream) = 0 \/ pos < FirstReady(stream)))
    /\ [][ss_pc = "returned" => UNCHANGED <<pos, event, ss_return, ss_pc>>]_vars

\* an event that is not ready, then two ready ones with different urls: the
\* url of the first was returned and the last line was not read
C8_Witness ==
    /\ ss_pc = "returned"
    /\ Len(stream) = 3
    /\ stream[1].data /\ stream[1].ready = "false"
    /\ stream[2].data /\ stream[2].ready = "true"
    /\ stream[3].data /\ stream[3].ready = "true"
    /\ stream[2].url # stream[3].url
    /\ ss_return = ss_args.hub_url \o stream[2].url
    /\ pos = 2

\* C9: when the stream has no ready event, the read of it ends in the
\* "never started" error that names user/server and nothing is returned; while
\* the stream is read, a step is always possible.
C9_NeverReadyFails ==
    /\ [][(ss_pc = "events" /\ FirstReady(stream) = 0 /\ ss_pc' # "events") =>
             /\ ss_pc' = "failed"
             /\ pos' = Len(stream)
             /\ ss_error' = [kind |-> "ValueError",
                             text |-> UserSlashServer(ss_args) \o <<" never started!">>]
             /\ ss_return' = NoUrl]_vars
    /\ [](ss_pc = "events" => ENABLED (EventReady \/ EventNotReady \/ StreamEnd))
    /\ [](ss_error.kind = "ValueError" =>
             ss_pc = "failed" /\ FirstReady(stream) = 0 /\ ss_return = NoUrl)
    /\ [](ss_pc = "returned" => ss_error = NoError)

\* two events that are not ready, then the end of the stream
C9_Witness ==
    /\ ss_pc = "failed"
    /\ ss_error.kind = "ValueError"
    /\ Len(stream) = 2
    /\ stream[1].data /\ stream[2].data
    /\ ss_args.server_name = <<"cortex_job">>

----------------------------------------------------------------------------
(* Properties of stop_server, checked under SpecStop. *)

\* C10: stop_server returns at the first poll that no longer lists the server
\* and polls no more: every poll before the last found the server pending, a
\* wait lies between two polls, so that n pending answers and an absent one
\* make n + 1 polls and n waits.
C10_ReturnsAtFirstAbsent ==
    /\ [](\A i \in 1..(Len(sp_polled) - 1) : sp_polled[i][sp_args.server_name] = "pending")
    /\ [](sp_pc = "returned" =>
             /\ Len(sp_polled) >= 1
             /\ sp_polled[Len(sp_polled)][sp_args.server_name] = "absent"
             /\ sp_sleeps = Len(sp_polled) - 1
             /\ sp_error = NoError)
    /\ [](sp_pc = "poll" => sp_sleeps = Len(sp_polled))
    /\ [][(sp_pc = "poll" /\ sp_model'[sp_args.server_name] = "absent"
                          /\ Len(sp_polled') = Len(sp_polled) + 1) =>
             sp_pc' = "returned"]_vars
    /\ [][sp_pc = "returned" => UNCHANGED <<sp_polled, sp_sleeps, sp_pc>>]_vars

\* pending, pending, absent: three polls and two waits
C10_Witness ==
    /\ sp_pc = "returned"
    /\ Len(sp_polled) = 3
    /\ sp_sleeps = 2
    /\ sp_polled[1][sp_args.server_name] = "pending"
    /\ sp_polled[2][sp_args.server_name] = "pending"
    /\ sp_polled[3][sp_args.server_name] = "absent"

\* C11: at the first poll that finds the server present and not pending,
\* stop_server fails with the "no longer pending" error that names
\* user/server, and polls no more; it never returns while the last poll still
\* lists the server.
C11_NotPendingFails ==
    /\ [][(sp_pc = "poll" /\ Len(sp_polled') = Len(sp_polled) + 1
                          /\ sp_model'[sp_args.server_name] = "notpending") =>
             /\ sp_pc' = "failed"
             /\ sp_sleeps' = sp_sleeps
             /\ sp_error' = [kind |-> "ValueError",
                             text |-> <<"Waiting for ">> \o UserSlashServer(sp_args)
                                      \o <<", but no longer pending.">>]]_vars
    /\ [][sp_pc = "failed" => UNCHANGED <<sp_polled, sp_sleeps, sp_pc, sp_error>>]_vars
    /\ [](\A i \in 1..Len(sp_polled) :
             sp_polled[i][sp_args.server_name] = "notpending" =>
                (i = Len(sp_polled) /\ sp_pc = "failed"))
    /\ [](sp_pc = "returned" =>
             sp_polled[Len(sp_polled)][sp_args.server_name] = "absent")
    /\ [](sp_pc = "failed" => sp_error.kind = "ValueError")

\* pending, then present and not pending: two polls, one wait, the error
C11_Witness ==
    /\ sp_pc = "failed"
    /\ Len(sp_polled) = 2
    /\ sp_sleeps = 1
    /\ sp_polled[1][sp_args.server_name] = "pending"
    /\ sp_polled[2][sp_args.server_name] = "notpending"
    /\ sp_error.kind = "ValueError"

----------------------------------------------------------------------------
(* The batch: failure, completion, records. *)

\* C12: once a fatal error has ended the run, no later notebook is loaded, no
\* further request is sent, the failure stays the one failure of the run, and
\* the records of the notebooks finished before it are never reported.
C12_FailureEndsBatch ==
    /\ [](failure # NoFailure => pc = "failed")
    /\ [](pc = "failed" => failure # NoFailure)
    /\ [][failure # NoFailure =>
             /\ failure' = failure
             /\ pi' = pi
             /\ nb_output' = nb_output
             /\ sent' = sent
             /\ results' = results]_vars
    /\ [](failure # NoFailure => report = <<>>)
    /\ [](report # <<>> => (pc = "reported" /\ failure = NoFailure))

\* the second notebook of two failed in the kernel, the first one's record
\* having been appended
C12_Witness ==
    /\ Len(input_paths) = 2
    /\ pc = "failed"
    /\ failure.kind = "KernelExecutionError"
    /\ pi = 2
    /\ Len(results) = 1
    /\ report = <<>>

\* C13: a run in which no error occurs and no wait lasts forever closes the
\* channel in the end; the channel is closed by one step only, taken when the
\* record of the last notebook has been appended, it stays closed, and no
\* request is written once it is closed.
C13_ClosesOnceAtEnd ==
    /\ ([](failure = NoFailure) /\ [](pc = "wait" => <>(pc # "wait")))
           => <>(ws = "closed")
    /\ [][ws' # ws =>
             \/ ws = "none" /\ ws' = "open"
             \/ /\ ws = "open" /\ ws' = "closed"
                /\ pc = "load" /\ pc' = "done"
                /\ pi > Len(input_paths)
                /\ Len(results) = Len(input_paths)]_vars
    /\ [][ws = "closed" => (ws' = "closed" /\ sent' = sent /\ results' = results)]_vars
    /\ [](pc \in {"done", "reported"} => ws = "closed")

\* two notebooks with a code cell each were executed and the channel is closed
C13_Witness ==
    /\ ws = "closed"
    /\ Len(input_paths) = 2
    /\ Len(results) = 2
    /\ Len(sent) = 2
    /\ sent[1].code[1] = 1
    /\ sent[2].code[1] = 2
    /\ failure = NoFailure

----------------------------------------------------------------------------
(* The constructor and the configuration. *)

\* C14: a constructor that ends with a configuration error has made no
\* network request before it.
C14_ConfigErrorBeforeNetwork == cf_error = "ConfigError" => cf_net = 0

\* C15: a run that returns has one record for each input path, in the order
\* of the paths, the i-th record carrying the i-th path as its name, a
\* duration that is not negative and the direct location of its output
\* notebook; the records reported are these.
C15_OneRecordPerPath ==
    /\ [](\A i \in 1..Len(results) :
             /\ i <= Len(input_paths)
             /\ results[i].name = input_paths[i]
             /\ results[i].duration >= 0
             /\ results[i].output_notebook = OutputPathDirect(conf, input_paths[i])
             /\ results[i].output_notebook # <<>>)
    /\ [](pc \in {"done", "reported"} => Len(results) = Len(input_paths))
    /\ [](pc = "reported" =>
             /\ Len(report) = 1
             /\ Len(report[1].notebooks) = Len(input_paths)
             /\ \A i \in 1..Len(input_paths) :
                   /\ report[1].notebooks[i].name = input_paths[i]
                   /\ report[1].notebooks[i].duration = results[i].duration
                   /\ report[1].notebooks[i].output_notebook = results[i].output_notebook)

\* two paths, the first notebook without a code cell, the second with two
C15_Witness ==
    /\ pc = "done"
    /\ Len(input_paths) = 2
    /\ input_paths[1] # input_paths[2]
    /\ Len(results) = 2
    /\ results[1].name = PathOf(1)
    /\ results[2].name = PathOf(2)
    /\ results[1].duration = 0
    /\ results[2].duration = 2

Submitted(src) == \E i \in 1..Len(sent) : sent[i].code = src

\* the cells of `cells` that are not code cells are those of `loaded`, as they
\* are, and none of them was submitted
TextCellsUntouched(cells, loaded) ==
    \A i \in 1..Len(cells) :
        cells[i].cell_type # "code" =>
            /\ cells[i] = loaded[i]
            /\ ~Submitted(cells[i].source)

\* C17: a cell that is not a code cell is passed over by a step that writes
\* nothing to the channel and changes no cell; no request carries the source
\* of such a cell; in the notebook being executed and in every record, such a
\* cell is what parameterization returned.
C17_TextCellsPassedOver ==
    /\ [][(pc = "cell" /\ ci <= Len(nb_output) /\ nb_output[ci].cell_type # "code") =>
             /\ sent' = sent
             /\ nb_output' = nb_output
             /\ pc' = "cell"
             /\ ci' = ci + 1]_vars
    /\ [](pc \in {"cell", "wait", "write"} =>
             /\ Len(nb_output) = Len(nb_param)
             /\ TextCellsUntouched(nb_output, nb_param))
    /\ [][results' # results =>
             /\ results'[Len(results')].cells = nb_output
             /\ TextCellsUntouched(results'[Len(results')].cells, nb_param)]_vars
    /\ [](\A r \in 1..Len(results) :
             \A i \in 1..Len(results[r].cells) :
                 results[r].cells[i].cell_type # "code" =>
                     /\ results[r].cells[i] = MakeCell("markdown", r, i)
                     /\ ~Submitted(results[r].cells[i].source))

\* a recorded notebook of a text cell, a code cell that was run, a text cell
C17_Witness ==
    /\ Len(results) = 1
    /\ Len(results[1].cells) = 3
    /\ results[1].cells[1].cell_type = "markdown"
    /\ results[1].cells[2].cell_type = "code"
    /\ results[1].cells[2].outputs # <<>>
    /\ results[1].cells[3].cell_type = "markdown"
    /\ Len(sent) = 1
    /\ sent[1].code = <<1, 2>>

----------------------------------------------------------------------------
(* The output paths. *)

\* the settings the statement of C18 names, the path being lp_path for both
SameFive(c, d) ==
    /\ c.output.hostname = d.output.hostname
    /\ c.output_folder = d.output_folder
    /\ c.date = d.date
    /\ c.data = d.data

\* the word w occurs in the string s
Contains(s, w) == \E i \in 1..Len(s) : s[i] = w

\* the configurations whose input and output are served by the HTTP handler
HttpConfs == {c \in Confs : c.input # None /\ c.output # None}

----------------------------------------------------------------------------
(* The wait loop: errors and other messages. *)

\* C19 as stated: the cell whose wait ended on an error has no outputs.
C19_ErrorEmptiesOutputs ==
    failure.kind = "KernelExecutionError" => nb_output[ci].outputs = <<>>

\* C19: a matching error message ends the run with the KernelExecutionError
\* that carries it and assigns nothing to the cell: the cell keeps the outputs
\* the notebook was loaded with, and its notebook is not recorded.
C19_ErrorLeavesOutputs ==
    /\ [][(Handling /\ msg # NoneMsg /\ msg.parent = msg_id /\ msg.msg_type = "error") =>
             /\ failure' = [kind |-> "KernelExecutionError", msg |-> msg]
             /\ nb_output' = nb_output
             /\ ci' = ci
             /\ results' = results]_vars
    /\ [](failure.kind = "KernelExecutionError" =>
             /\ pc = "failed"
             /\ nb_output[ci].cell_type = "code"
             /\ nb_output[ci] = nb_param[ci]
             /\ Len(results) = pi - 1)

\* the cell that failed still holds the output of an earlier run
C19_Witness ==
    /\ failure.kind = "KernelExecutionError"
    /\ nb_output[ci].outputs = <<OldOutput>>
    /\ ci = 2
    /\ nb_output[1].outputs # nb_param[1].outputs

\* the types that end the wait of a cell
EndingTypes == {"error", "execute_reply", "stream", "display_data"}

\* C20: the wait loop handling a message of the pending token whose type is
\* none of the four goes on waiting for the same token and changes no cell;
\* handling one whose type is one of the four leaves the loop; the loop is left
\* for the next cell, or with the kernel's error, only by a step that handles a
\* message of the pending token and of one of the four types.
C20_OtherTypesIgnored ==
    /\ [][(Handling /\ msg # NoneMsg /\ msg.parent = msg_id
                    /\ msg.msg_type \notin EndingTypes) =>
             /\ pc' = "wait"
             /\ UNCHANGED <<nb_output, ci, msg_id, sent, results, failure>>]_vars
    /\ [][(Handling /\ msg # NoneMsg /\ msg.parent = msg_id
                    /\ msg.msg_type \in EndingTypes) => pc' # "wait"]_vars
    /\ [][(pc = "wait" /\ pc' # "wait" /\ failure'.kind \notin {"DecodeError", "KeyError"}) =>
             /\ Handling
             /\ msg.parent = msg_id
             /\ msg.msg_type \in EndingTypes
             /\ (pc' = "failed") = (msg.msg_type = "error")
             /\ (pc' = "cell") = (msg.msg_type # "error")]_vars
    /\ [][(pc = "wait" /\ nb_output' # nb_output) =>
             (Handling /\ msg.parent = msg_id /\ msg.msg_type \in TerminalTypes)]_vars

\* a status message for the pending token is about to be handled, the cell
\* holding an output of an earlier run
C20_Witness ==
    /\ pc = "wait"
    /\ msg.msg_type = "status"
    /\ msg.parent = msg_id
    /\ msg_id = 2
    /\ nb_output[ci].outputs = <<OldOutput>>

----------------------------------------------------------------------------
(* start_server: the requests it issues. *)

\* C21: the launch is requested exactly when the first user model fetched
\* does not list the server, and once at most; after the request the user
\* model is fetched once more and no further time; the progress stream is
\* opened after these fetches only.
C21_StartsOnlyWhenAbsent ==
    /\ [][ss_pc = "get" =>
             /\ ss_gets = 0 /\ ss_gets' = 1 /\ ss_posts' = 0
             /\ (ss_pc' = "post") = (ss_args.server_name \notin user_model')
             /\ (ss_pc' = "progress") = (ss_args.server_name \in user_model')]_vars
    /\ [][ss_pc = "post" =>
             /\ ss_posts = 0 /\ ss_posts' = 1
             /\ ss_gets' = ss_gets
             /\ ss_pc' = "reget"]_vars
    /\ [][ss_posts' # ss_posts =>
             /\ ss_pc = "post"
             /\ ss_gets = 1
             /\ ss_args.server_name \notin user_model]_vars
    /\ [][ss_pc = "reget" =>
             /\ ss_gets = 1 /\ ss_gets' = 2
             /\ ss_posts' = ss_posts
             /\ ss_pc' = "progress"]_vars
    /\ [](ss_posts <= 1)
    /\ [](ss_pc \in {"post", "reget"} => ss_args.server_name \notin user_model)
    /\ [](ss_pc \in {"progress", "events", "returned", "failed"} =>
             /\ ss_gets = 1 + ss_posts
             /\ (ss_posts = 0 => ss_args.server_name \in user_model))
    /\ [][stream' # stream =>
             /\ ss_pc = "progress"
             /\ ss_gets = 1 + ss_posts
             /\ ss_args.server_name \in user_model]_vars
    /\ [][(ss_pc \in {"progress", "events", "returned", "failed"}) =>
             (ss_gets' = ss_gets /\ ss_posts' = ss_posts /\ user_model' = user_model)]_vars

\* the launch was requested, the user model fetched again, the stream opened
C21_Witness ==
    /\ ss_pc = "events"
    /\ ss_posts = 1
    /\ ss_gets = 2
    /\ ss_args.server_name = <<"cortex_job">>
    /\ Len(stream) > 0

----------------------------------------------------------------------------
(* The wait loop: the peer closes the channel. *)

\* C22: when the read of a waiting cell returns None, the turn that handles
\* it ends the run with an error; the run then stays failed and writes no
\* further request; and a wait whose read returned None does come to that end.
C22_ClosedChannelEndsRun ==
    /\ [][(Handling /\ msg = NoneMsg) =>
             /\ pc' = "failed"
             /\ failure' = [kind |-> "DecodeError"]
             /\ sent' = sent
             /\ ci' = ci]_vars
    /\ [](failure.kind = "DecodeError" => pc = "failed")
    /\ [][failure.kind = "DecodeError" =>
             (pc' = "failed" /\ sent' = sent /\ failure' = failure)]_vars
    /\ (pc = "wait" /\ msg = NoneMsg) ~> (pc = "failed" /\ failure.kind = "DecodeError")

\* the channel was closed during the wait of the first of two code cells
C22_Witness ==
    /\ pc = "failed"
    /\ failure.kind = "DecodeError"
    /\ Len(sent) = 1
    /\ ci = 1
    /\ Len(nb_output) >= 2
    /\ nb_output[2].cell_type = "code"

----------------------------------------------------------------------------
(* initialize_path and the handlers that are not HTTP. *)

\* C23: initialize_path has returned a record for the input and for the
\* output, whatever their handlers, so that run builds the paths of the
\* notebook without an error.
C23_RecordForEveryHostname ==
    lp_pc # "build" =>
        /\ conf.input # None
        /\ conf.output # None
        /\ lp_pc = "built"

====
